---- MODULE Spec2Model ----
(***************************************************************************)
(* A model of fmmax/farfield.py: unflattening of Brillouin-zone batched    *)
(* arrays, farfield angles and solid angles, and the integrated flux.      *)
(*                                                                         *)
(* Numbers are exact extended rationals <<n, d>> (d > 0 reduced; <<0,0>>  *)
(* is nan, <<1,0>> is +inf, <<-1,0>> is -inf).  Arrays are records        *)
(* [shape, data] with data a function on the 0-based index tuples.        *)
(* Wavevectors are measured in units of 2*pi per unit length, so the code's *)
(* 2 * jnp.pi is the number 1.                                             *)
(***************************************************************************)
EXTENDS Integers, Sequences, FiniteSets, TLC

VARIABLES pc, expansion, flat, flux, flat_transverse_wavevectors,
          brillouin_grid_axes, in_plane_wavevector,
          primitive_lattice_vectors, wavelength, angle_bounds_fn,
          upsample_factor, weights, unflattened_wavevectors, result

vars == <<pc, expansion, flat, flux, flat_transverse_wavevectors,
          brillouin_grid_axes, in_plane_wavevector,
          primitive_lattice_vectors, wavelength, angle_bounds_fn,
          upsample_factor, weights, unflattened_wavevectors, result>>

(***************************************************************************)
(* Bounds of the model.                                                    *)
(***************************************************************************)
\* Fourier coefficients i and j range over -1 .. MaxOrder.
MaxOrder == 1
\* Each Brillouin grid axis has 1 .. MaxBz samples.
MaxBz == 2

(***************************************************************************)
(* Numbers.                                                                *)
(***************************************************************************)
Abs(x) == IF x < 0 THEN -x ELSE x

Sgn(x) == IF x < 0 THEN -1 ELSE IF x > 0 THEN 1 ELSE 0

RECURSIVE Gcd(_, _)
Gcd(a, b) == IF b = 0 THEN a ELSE Gcd(b, a % b)

\* The number n / d, reduced; a zero denominator gives nan or a signed inf.
Num(n, d) ==
    IF d = 0 THEN <<Sgn(n), 0>>
    ELSE LET g == Gcd(Abs(n), Abs(d))
         IN  <<(Sgn(d) * n) \div g, Abs(d) \div g>>

IntNum(n) == <<n, 1>>
NaN == <<0, 0>>
Inf == <<1, 0>>
Zero == <<0, 1>>
One == <<1, 1>>

IsNaN(x) == x = NaN
IsFinite(x) == x[2] > 0

Add(x, y) ==
    IF x[2] = 0 /\ y[2] = 0 THEN (IF x = y THEN x ELSE NaN)
    ELSE IF x[2] = 1 /\ y[2] = 1 THEN <<x[1] + y[1], 1>>
    ELSE IF x = <<0, 1>> THEN y
    ELSE IF y = <<0, 1>> THEN x
    ELSE Num(x[1] * y[2] + y[1] * x[2], x[2] * y[2])

Neg(x) == <<-x[1], x[2]>>
Sub(x, y) == Add(x, Neg(y))
Mul(x, y) ==
    IF x[2] = 1 /\ y[2] = 1 THEN <<x[1] * y[1], 1>>
    ELSE IF x[2] > 0 /\ y[2] > 0 /\ (x[1] = 0 \/ y[1] = 0) THEN <<0, 1>>
    ELSE Num(x[1] * y[1], x[2] * y[2])
Recip(x) == Num(x[2], x[1])
Div(x, y) == Mul(x, Recip(y))
NumAbs(x) == <<Abs(x[1]), x[2]>>

\* Comparisons are false when an operand is nan, as in IEEE arithmetic.
Less(x, y) == ~IsNaN(x) /\ ~IsNaN(y) /\ x # y /\ x[1] * y[2] < y[1] * x[2]
Leq(x, y) == ~IsNaN(x) /\ ~IsNaN(y) /\ (x = y \/ Less(x, y))

(***************************************************************************)
(* Arrays.                                                                 *)
(***************************************************************************)
Last(s) == s[Len(s)]
Take(s, n) == SubSeq(s, 1, n)
Drop(s, n) == SubSeq(s, n + 1, Len(s))

RECURSIVE Prod(_)
Prod(s) == IF s = << >> THEN 1 ELSE Head(s) * Prod(Tail(s))

RECURSIVE Indices(_)
Indices(shape) ==
    IF shape = << >> THEN {<< >>}
    ELSE {<<i>> \o r : i \in 0 .. (Head(shape) - 1), r \in Indices(Tail(shape))}

\* The offset of idx in a C-ordered array of the given shape, and back.
RECURSIVE Ravel(_, _)
Ravel(shape, idx) ==
    IF shape = << >> THEN 0
    ELSE Head(idx) * Prod(Tail(shape)) + Ravel(Tail(shape), Tail(idx))

RECURSIVE Unravel(_, _)
Unravel(shape, off) ==
    IF shape = << >> THEN << >>
    ELSE LET p == Prod(Tail(shape))
         IN  <<off \div p>> \o Unravel(Tail(shape), off % p)

Full(shape, v) == [shape |-> shape, data |-> [idx \in Indices(shape) |-> v]]

\* jnp.arange(size).reshape(shape) + base: every entry differs from the others.
Arange(shape, base) ==
    [shape |-> shape, data |-> [idx \in Indices(shape) |-> IntNum(base + Ravel(shape, idx))]]

Ndim(a) == Len(a.shape)

\* An array as a value: its entries are computed once, when it is made, and
\* not again at every read (comparing a function with itself makes TLC
\* tabulate it).
Array(a) == IF a = a THEN a ELSE a

\* jnp.reshape: the same C-ordered elements under another shape.
Reshape(a, shape) ==
    [shape |-> shape,
     data |-> [idx \in Indices(shape) |-> a.data[Unravel(a.shape, Ravel(shape, idx))]]]

\* jnp.transpose: axis d of the result is axis axes[d + 1] of a.
Transpose(a, axes) ==
    LET shape == [d \in 1 .. Len(axes) |-> a.shape[axes[d] + 1]]
        src(idx) == [ax \in 1 .. Len(axes) |->
                        idx[CHOOSE d \in 1 .. Len(axes) : axes[d] = ax - 1]]
    IN  [shape |-> shape, data |-> [idx \in Indices(shape) |-> a.data[src(idx)]]]

\* A call's outcome: the exception raised ("none" when it returned) and the value.
Raised(e) == [err |-> e, val |-> Full(<<0>>, NaN)]
Returned(v) == [err |-> "none", val |-> v]
NoResult == Raised("pending")

(***************************************************************************)
(* basis.Expansion: a sequence of <<i, j>> coefficient pairs.              *)
(***************************************************************************)
num_terms(e) == Len(e)
CoefI(e) == [k \in 1 .. Len(e) |-> e[k][1]]
CoefJ(e) == [k \in 1 .. Len(e) |-> e[k][2]]

SeqMax(s) == CHOOSE m \in {s[k] : k \in 1 .. Len(s)} : \A k \in 1 .. Len(s) : s[k] <= m
SeqMin(s) == CHOOSE m \in {s[k] : k \in 1 .. Len(s)} : \A k \in 1 .. Len(s) : m <= s[k]

Min2(p) == IF p[1] < p[2] THEN p[1] ELSE p[2]
Max2(p) == IF p[1] < p[2] THEN p[2] ELSE p[1]

Distinct(e) == \A k, l \in 1 .. Len(e) : k # l => e[k] # e[l]

(***************************************************************************)
(* unflatten                                                               *)
(***************************************************************************)
\* The offset of the first order block: min(order) * bz_grid_shape[axis].
Offset(order, bz) == SeqMin(order) * bz

\* merged_i[a, b, k] and merged_j[a, b, k]: the destination bin, along one
\* axis, of sample index s of the order with value order[k].
MergedNoOffset(order, bz, k, s) == order[k] * bz + s
Merged(order, bz, k, s) == order[k] * bz + s - Offset(order, bz)

\* The extent of the unflattened grid along one axis.
ExtentNoPlusOne(order, bz) == (SeqMax(order) - SeqMin(order)) * bz
Extent(order, bz) == (SeqMax(order) - SeqMin(order) + 1) * bz

\* The precondition failures of unflatten, in the order the code meets them;
\* the builtin max() raises ValueError on an empty sequence.
UnflattenError(a, e) ==
    IF Ndim(a) < 3 THEN "AssertionError"
    ELSE IF Last(a.shape) # num_terms(e) THEN "AssertionError"
    ELSE IF num_terms(e) = 0 THEN "ValueError"
    ELSE "none"

\* stacked_i and stacked_j: merged_i and merged_j, of shape
\* (num_bz_kx, num_bz_ky, num_terms), flattened in C order.
StackedI(bz, e) ==
    LET src == <<bz[1], bz[2], num_terms(e)>>
        order == CoefI(e)
    IN  [m \in 0 .. (Prod(src) - 1) |->
            Merged(order, bz[1], Unravel(src, m)[3] + 1, Unravel(src, m)[1])]

StackedJ(bz, e) ==
    LET src == <<bz[1], bz[2], num_terms(e)>>
        order == CoefJ(e)
    IN  [m \in 0 .. (Prod(src) - 1) |->
            Merged(order, bz[2], Unravel(src, m)[3] + 1, Unravel(src, m)[2])]

\* The scatter .at[..., stacked_i, stacked_j].set(stacked_flat) into an array
\* full of nan.  When several positions address one bin the update that stays
\* is unspecified: prio ranks the terms and the highest-ranked writer stays.
UnflattenWith(a, e, prio) ==
    LET n == Ndim(a)
        batch_shape == Take(a.shape, n - 3)
        bz_grid_shape == SubSeq(a.shape, n - 2, n - 1)
        nt == num_terms(e)
        shape == batch_shape \o <<Extent(CoefI(e), bz_grid_shape[1]),
                                  Extent(CoefJ(e), bz_grid_shape[2])>>
        stacked_i == Array(StackedI(bz_grid_shape, e))
        stacked_j == Array(StackedJ(bz_grid_shape, e))
        stacked_flat == Array(Reshape(a, batch_shape \o <<Prod(bz_grid_shape) * nt>>))
        nb == Len(batch_shape)
        value(idx) ==
            LET w == {m \in DOMAIN stacked_i :
                         stacked_i[m] = idx[nb + 1] /\ stacked_j[m] = idx[nb + 2]}
            IN  IF w = {} THEN NaN
                ELSE LET m == CHOOSE m \in w :
                                 \A o \in w : prio[(o % nt) + 1] <= prio[(m % nt) + 1]
                     IN  stacked_flat.data[Take(idx, nb) \o <<m>>]
    IN  Array([shape |-> shape, data |-> [idx \in Indices(shape) |-> value(idx)]])

\* The rankings of the terms: the injections of 1 .. n into 1 .. n.
Rankings(n) == {p \in [1 .. n -> 1 .. n] : \A k, l \in 1 .. n : k # l => p[k] # p[l]}

Identity(n) == [k \in 1 .. n |-> k]

\* unflatten for an expansion of pairwise distinct coefficients, where every
\* bin has at most one writer and the ranking plays no part.
unflatten(a, e) ==
    IF UnflattenError(a, e) # "none" THEN Raised(UnflattenError(a, e))
    ELSE Returned(UnflattenWith(a, e, Identity(num_terms(e))))

(***************************************************************************)
(* utils.absolute_axes: negative axes count from the end.                  *)
(***************************************************************************)
absolute_axes(axes, ndim) ==
    [k \in 1 .. Len(axes) |-> IF axes[k] < 0 THEN axes[k] + ndim ELSE axes[k]]

AbsoluteAxesError(axes, ndim) ==
    IF \E k \in 1 .. Len(axes) : axes[k] < 0 - ndim \/ axes[k] >= ndim THEN "ValueError"
    ELSE IF \E k, l \in 1 .. Len(axes) :
                k # l /\ absolute_axes(axes, ndim)[k] = absolute_axes(axes, ndim)[l]
    THEN "ValueError"
    ELSE "none"

\* range(n) as a sequence, and a sequence without the members of a set.
Range0(n) == [k \in 1 .. n |-> k - 1]
SeqRange(s) == {s[k] : k \in 1 .. Len(s)}

RECURSIVE Without(_, _)
Without(s, set) ==
    IF s = << >> THEN << >>
    ELSE IF Head(s) \in set THEN Without(Tail(s), set)
    ELSE <<Head(s)>> \o Without(Tail(s), set)

(***************************************************************************)
(* unflatten_flux                                                          *)
(***************************************************************************)
\* A wrong split of the 2 * num_terms axis: order-major, (num_terms, 2),
\* followed by a swap that brings the polarization axis first.
SplitOrderMajor(f) ==
    LET n == Ndim(f)
        r == Reshape(f, Take(f.shape, n - 2) \o <<f.shape[n - 1] \div 2, 2, f.shape[n]>>)
    IN  Transpose(r, Range0(n - 2) \o <<n - 1, n - 2, n>>)

\* jnp.reshape(flux, flux.shape[:-2] + (2, -1, flux.shape[-1])).
SplitPolarization(f) ==
    LET n == Ndim(f)
    IN  Reshape(f, Take(f.shape, n - 2) \o <<2, f.shape[n - 1] \div 2, f.shape[n]>>)

UnflattenFluxError(f, e, axes) ==
    IF Ndim(f) < 4 THEN "AssertionError"
    ELSE IF f.shape[Ndim(f) - 1] # 2 * num_terms(e) THEN "AssertionError"
    ELSE AbsoluteAxesError(axes, Ndim(f))

unflatten_flux(f, e, axes) ==
    IF UnflattenFluxError(f, e, axes) # "none" THEN Raised(UnflattenFluxError(f, e, axes))
    ELSE
    LET bga == absolute_axes(axes, Ndim(f))
        split == SplitPolarization(f)
        nd == Ndim(split)
        batch_axes == Without(Range0(nd), SeqRange(bga) \cup {nd - 2})
        perm == batch_axes \o Without(Range0(nd), SeqRange(batch_axes))
        u == unflatten(Array(Transpose(split, perm)), e)
        m == Ndim(u.val)
    IN  IF u.err # "none" THEN u
        ELSE Returned(Transpose(u.val, Range0(m - 4) \o <<m - 2, m - 1, m - 4, m - 3>>))

(***************************************************************************)
(* unflatten_transverse_wavevectors                                        *)
(***************************************************************************)
UnflattenWavevectorsError(tw, e, axes) ==
    IF Ndim(tw) < 4 THEN "AssertionError"
    ELSE IF SubSeq(tw.shape, Ndim(tw) - 1, Ndim(tw)) # <<num_terms(e), 2>> THEN "AssertionError"
    ELSE AbsoluteAxesError(axes, Ndim(tw))

\* A wrong transposition: the Brillouin grid axes in the order they are
\* listed in, not in the order they have in the array.
UnflattenWavevectorsAsListed(tw, e, axes) ==
    IF UnflattenWavevectorsError(tw, e, axes) # "none"
    THEN Raised(UnflattenWavevectorsError(tw, e, axes))
    ELSE
    LET nd == Ndim(tw)
        bga == absolute_axes(axes, nd)
        batch_axes == Without(Range0(nd), SeqRange(bga) \cup {nd - 2})
        perm == batch_axes \o bga \o <<nd - 2>>
        u == unflatten(Array(Transpose(tw, perm)), e)
        m == Ndim(u.val)
    IN  IF u.err # "none" THEN u
        ELSE Returned(Array(Transpose(u.val, Range0(m - 3) \o <<m - 2, m - 1, m - 3>>)))

unflatten_transverse_wavevectors(tw, e, axes) ==
    IF UnflattenWavevectorsError(tw, e, axes) # "none"
    THEN Raised(UnflattenWavevectorsError(tw, e, axes))
    ELSE
    LET nd == Ndim(tw)
        bga == absolute_axes(axes, nd)
        non_batch_axes == SeqRange(bga) \cup {nd - 2}
        batch_axes == Without(Range0(nd), non_batch_axes)
        perm == batch_axes \o Without(Range0(nd), SeqRange(batch_axes))
        u == unflatten(Array(Transpose(tw, perm)), e)
        m == Ndim(u.val)
    IN  IF u.err # "none" THEN u
        ELSE Returned(Array(Transpose(u.val, Range0(m - 3) \o <<m - 2, m - 1, m - 3>>)))

(***************************************************************************)
(* The collaborators of module basis: reciprocal lattice vectors, the      *)
(* Brillouin zone grid and the transverse wavevectors of the orders.       *)
(***************************************************************************)
\* The reciprocal vectors of the lattice with primitive vectors lv.u, lv.v
\* (without the factor 2 * pi, which is the unit of wavevectors here).
Reciprocal(lv) ==
    LET det == Sub(Mul(lv.u[1], lv.v[2]), Mul(lv.u[2], lv.v[1]))
    IN  [u |-> <<Div(lv.v[2], det), Div(Neg(lv.v[1]), det)>>,
         v |-> <<Div(Neg(lv.u[2]), det), Div(lv.u[1], det)>>]

\* basis.brillouin_zone_in_plane_wavevector: a regular grid of bx by by
\* samples centred in the first Brillouin zone, of shape (bx, by, 2).
brillouin_zone_in_plane_wavevector(bx, by, lv) ==
    LET r == Reciprocal(lv)
        fx(a) == Num(2 * a + 1 - bx, 2 * bx)
        fy(b) == Num(2 * b + 1 - by, 2 * by)
    IN  Array([shape |-> <<bx, by, 2>>,
               data |-> [idx \in Indices(<<bx, by, 2>>) |->
                   Add(Mul(fx(idx[1]), r.u[idx[3] + 1]), Mul(fy(idx[2]), r.v[idx[3] + 1]))]])

\* basis.transverse_wavevectors: k + i * u + j * v for every order (i, j),
\* of shape (..., num_terms, 2).
transverse_wavevectors(ipw, lv, e) ==
    LET r == Reciprocal(lv)
        n == Ndim(ipw)
        shape == Take(ipw.shape, n - 1) \o <<num_terms(e), 2>>
    IN  Array([shape |-> shape,
               data |-> [idx \in Indices(shape) |->
                   LET k == idx[n] + 1
                       c == idx[n + 1] + 1
                   IN  Add(ipw.data[Take(idx, n - 1) \o <<c - 1>>],
                           Add(Mul(IntNum(e[k][1]), r.u[c]), Mul(IntNum(e[k][2]), r.v[c])))]])

(***************************************************************************)
(* Square roots and angles.  The root of q >= 0 is the record [sq |-> q];  *)
(* an angle in [0, pi/2] is the record [sin2 |-> s] of its squared sine;   *)
(* an angle in (-pi, pi] is the primitive integer vector <<y, x>> that     *)
(* points its way, <<0, 1>> being the angle 0.                             *)
(***************************************************************************)
Sqrt(q) == [sq |-> IF Less(q, Zero) THEN NaN ELSE q]

\* root * x, for x >= 0.
RootTimes(root, x) == [sq |-> Mul(root.sq, Mul(x, x))]

RootGreaterThanOne(root) == Less(One, root.sq)

\* jnp.arcsin of a root: nan outside [0, 1].
ArcSin(root) ==
    [sin2 |-> IF Leq(Zero, root.sq) /\ Leq(root.sq, One) THEN root.sq ELSE NaN]

HalfPi == [sin2 |-> One]

\* jnp.cos of an angle in [0, pi/2]: the root of 1 - sin^2.
Cos(angle) == Sqrt(Sub(One, angle.sin2))

\* x / root for x >= 0, which is the root of x^2 / q.
OverRoot(x, root) == [sq |-> Div(Mul(x, x), root.sq)]

\* atan2(y, x); atan2(0, 0) is 0.
Atan2(y, x) ==
    IF ~IsFinite(y) \/ ~IsFinite(x) THEN <<0, 0>>
    ELSE LET yy == y[1] * x[2]
             xx == x[1] * y[2]
             g == Gcd(Abs(yy), Abs(xx))
         IN  IF g = 0 THEN <<0, 1>> ELSE <<yy \div g, xx \div g>>

\* kx + 1j * ky and jnp.angle.
Complex(re, im) == [re |-> re, im |-> im]
Angle(z) == Atan2(z.im, z.re)

(***************************************************************************)
(* angles_from_unflattened_transverse_wavevectors                          *)
(***************************************************************************)
\* The polar angle without the clamp of evanescent bins.
PolarUnclamped(kx, ky, wl) ==
    ArcSin(RootTimes(Sqrt(Add(Mul(kx, kx), Mul(ky, ky))), wl))

\* The polar angle of one bin: where(sin > 1, pi / 2, arcsin(sin)).
Polar(kx, ky, wl) ==
    LET kt == Sqrt(Add(Mul(kx, kx), Mul(ky, ky)))
        sin_polar_angle == RootTimes(kt, wl)
    IN  IF RootGreaterThanOne(sin_polar_angle) THEN HalfPi ELSE ArcSin(sin_polar_angle)

Azimuthal(kx, ky) == Angle(Complex(kx, ky))

\* tw has shape (..., nkx, nky, 2); the wavelength is a scalar.
angles_from_unflattened_transverse_wavevectors(tw, wl) ==
    LET shape == Take(tw.shape, Ndim(tw) - 1)
    IN  [polar_angle |-> Array([shape |-> shape, data |-> [idx \in Indices(shape) |->
                            Polar(tw.data[idx \o <<0>>], tw.data[idx \o <<1>>], wl)]]),
         azimuthal_angle |-> Array([shape |-> shape, data |-> [idx \in Indices(shape) |->
                            Azimuthal(tw.data[idx \o <<0>>], tw.data[idx \o <<1>>])]])]

(***************************************************************************)
(* solid_angle_from_unflattened_transverse_wavevectors                     *)
(***************************************************************************)
\* The area of the parallelogram spanned by v1 and v2.
CellAreaDot(v1x, v1y, v2x, v2y) == NumAbs(Add(Mul(v1x, v2x), Mul(v1y, v2y)))
CellArea(v1x, v1y, v2x, v2y) == NumAbs(Sub(Mul(v1x, v2y), Mul(v2x, v1y)))

Clamp(x, lo, hi) == IF x < lo THEN lo ELSE IF x > hi THEN hi ELSE x

solid_angle_from_unflattened_transverse_wavevectors(tw, wl) ==
    LET n == Ndim(tw)
        shape == Take(tw.shape, n - 1)
        nkx == tw.shape[n - 2]
        nky == tw.shape[n - 1]
        \* kx /= 2 * pi / wavelength, and the same for ky (c = 0 or 1).
        k == Array([idx \in Indices(tw.shape) |-> Div(tw.data[idx], Div(One, wl))])
        \* jnp.pad(mode="edge"): entry (p, q) of the padded array.
        pad(b, p, q, c) == k[b \o <<Clamp(p - 1, 0, nkx - 1), Clamp(q - 1, 0, nky - 1), c>>]
        \* Four times the vertex (p, q), 0 <= p <= nkx, 0 <= q <= nky.
        vertex4(b, p, q, c) ==
            Add(Add(pad(b, p, q, c), pad(b, p, q + 1, c)),
                Add(pad(b, p + 1, q, c), pad(b, p + 1, q + 1, c)))
        vertex(b, p, q, c) == Div(vertex4(b, p, q, c), IntNum(4))
        v1(b, x, y, c) == Sub(vertex(b, x, y + 1, c), vertex(b, x, y, c))
        v2(b, x, y, c) == Sub(vertex(b, x + 1, y, c), vertex(b, x, y, c))
        cell_area(b, x, y) ==
            CellArea(v1(b, x, y, 0), v1(b, x, y, 1), v2(b, x, y, 0), v2(b, x, y, 1))
        polar_angle(b, x, y) ==
            ArcSin(Sqrt(Add(Mul(k[b \o <<x, y, 0>>], k[b \o <<x, y, 0>>]),
                            Mul(k[b \o <<x, y, 1>>], k[b \o <<x, y, 1>>]))))
    IN  Array([shape |-> shape,
               data |-> [idx \in Indices(shape) |->
                   LET b == Take(idx, n - 3)
                       x == idx[n - 2]
                       y == idx[n - 1]
                   IN  OverRoot(cell_area(b, x, y), Cos(polar_angle(b, x, y)))]])

(***************************************************************************)
(* farfield_profile, for a flux (num_bz_kx, num_bz_ky, 2 * num_terms,     *)
(* num_sources) and a scalar wavelength.                                   *)
(***************************************************************************)
FarfieldProfileError(f, e, axes) ==
    IF f.shape[Ndim(f) - 1] # 2 * num_terms(e) THEN "AssertionError"
    ELSE AbsoluteAxesError(axes, Ndim(f))

farfield_profile(f, wl, ipw, lv, e, axes) ==
    IF FarfieldProfileError(f, e, axes) # "none" THEN Raised(FarfieldProfileError(f, e, axes))
    ELSE
    LET bga == absolute_axes(axes, Ndim(f))
        tw == unflatten_transverse_wavevectors(transverse_wavevectors(ipw, lv, e), e, bga)
        fu == unflatten_flux(f, e, bga)
    IN  IF tw.err # "none" THEN tw
        ELSE IF fu.err # "none" THEN fu
        ELSE
        LET ang == angles_from_unflattened_transverse_wavevectors(tw.val, wl)
            solid_angle == solid_angle_from_unflattened_transverse_wavevectors(tw.val, wl)
            n == Ndim(fu.val)
        IN  Returned([polar_angle |-> ang.polar_angle,
                      azimuthal_angle |-> ang.azimuthal_angle,
                      solid_angle |-> solid_angle,
                      \* flux / solid_angle[..., newaxis, newaxis], entry by entry.
                      transformed_flux |-> [shape |-> fu.val.shape,
                          data |-> [idx \in Indices(fu.val.shape) |->
                              [flux |-> fu.val.data[idx],
                               solid_angle |-> solid_angle.data[Take(idx, n - 2)]]]]])

(***************************************************************************)
(* utils.atleast_nd: leading axes of length 1 until there are n axes.      *)
(***************************************************************************)
atleast_nd(a, n) ==
    IF Ndim(a) >= n THEN a
    ELSE Reshape(a, [d \in 1 .. (n - Ndim(a)) |-> 1] \o a.shape)

(***************************************************************************)
(* jax.image.resize(method="linear").                                      *)
(***************************************************************************)
\* s[1] + ... + s[n].
RECURSIVE SumTo(_, _)
SumTo(s, n) == IF n = 0 THEN Zero ELSE Add(SumTo(s, n - 1), s[n])

\* The triangle kernel max(0, 1 - |x|).
Triangle(x) == IF Less(NumAbs(x), One) THEN Sub(One, NumAbs(x)) ELSE Zero

\* The place of output sample o among the input samples:
\* (o + 0.5) * nin / nout - 0.5.
SampleAt(o, nin, nout) == Num((2 * o + 1) * nin - nout, 2 * nout)

\* The weight matrix of one axis: entry [i, o] is the share of input i in
\* output o; every column is normalised by its total.
ResizeWeights(nin, nout) ==
    LET ins == 0 .. (nin - 1)
        outs == 0 .. (nout - 1)
        kernel == Array([i \in ins, o \in outs |->
                       Triangle(Sub(SampleAt(o, nin, nout), IntNum(i)))])
        total_weight_sum == Array([o \in outs |->
                       SumTo([i \in 1 .. nin |-> kernel[i - 1, o]], nin)])
        inside(o) == /\ Leq(Num(0 - 1, 2), SampleAt(o, nin, nout))
                     /\ Leq(SampleAt(o, nin, nout), Num(2 * nin - 1, 2))
    IN  Array([i \in ins, o \in outs |->
            IF inside(o) /\ Less(Zero, total_weight_sum[o])
            THEN Div(kernel[i, o], total_weight_sum[o]) ELSE Zero])

\* Axis ax (counted from 1) of a resized to nout samples; an axis that keeps
\* its length is left alone.
ResizeAxis(a, ax, nout) ==
    LET nin == a.shape[ax]
    IN  IF nout = nin THEN a
        ELSE
        LET w == ResizeWeights(nin, nout)
            shape == [a.shape EXCEPT ![ax] = nout]
        IN  Array([shape |-> shape,
                   data |-> [idx \in Indices(shape) |->
                       SumTo([i \in 1 .. nin |->
                                 Mul(w[i - 1, idx[ax]], a.data[[idx EXCEPT ![ax] = i - 1]])],
                             nin)]])

RECURSIVE ResizeFrom(_, _, _)
ResizeFrom(a, shape, ax) ==
    IF ax > Len(shape) THEN a
    ELSE ResizeFrom(ResizeAxis(a, ax, shape[ax]), shape, ax + 1)

resize(a, shape) == ResizeFrom(a, shape, 1)

\* The transpose of ResizeAxis: the cotangent ct of the resized array pulled
\* back to the array with nin samples along axis ax.
ResizeAxisT(ct, ax, nin) ==
    LET nout == ct.shape[ax]
    IN  IF nout = nin THEN ct
        ELSE
        LET w == ResizeWeights(nin, nout)
            shape == [ct.shape EXCEPT ![ax] = nin]
        IN  Array([shape |-> shape,
                   data |-> [idx \in Indices(shape) |->
                       SumTo([o \in 1 .. nout |->
                                 Mul(w[idx[ax], o - 1], ct.data[[idx EXCEPT ![ax] = o - 1]])],
                             nout)]])

RECURSIVE ResizeFromT(_, _, _)
ResizeFromT(ct, shape, ax) ==
    IF ax = 0 THEN ct
    ELSE ResizeFromT(ResizeAxisT(ct, ax, shape[ax]), shape, ax - 1)

\* The transpose of resize(a, ct.shape) for a of the given shape.
resizeT(ct, shape) == ResizeFromT(ct, shape, Len(shape))

(***************************************************************************)
(* angle_bounds_fn: the masks the calls are made with, by name.  A mask    *)
(* value is a number: 1 for True, 0 for False.                             *)
(***************************************************************************)
Masks == {"all", "none", "cone", "propagating", "upper", "cone_or_nan"}

angle_bounds(fn, polar_angle, azimuthal_angle) ==
    CASE fn = "all" -> One
      [] fn = "none" -> Zero
      \* polar_angle < pi / 4
      [] fn = "cone" -> IF Less(polar_angle.sin2, Num(1, 2)) THEN One ELSE Zero
      \* polar_angle < pi / 2
      [] fn = "propagating" -> IF Less(polar_angle.sin2, One) THEN One ELSE Zero
      \* azimuthal_angle >= 0
      [] fn = "upper" -> IF azimuthal_angle[1] >= 0 /\ azimuthal_angle # <<0, 0>>
                         THEN One ELSE Zero
      \* jnp.where(polar_angle < pi / 4, 1.0, jnp.nan)
      [] fn = "cone_or_nan" -> IF Less(polar_angle.sin2, Num(1, 2)) THEN One ELSE NaN

(***************************************************************************)
(* _integrated_flux_upsampled                                              *)
(***************************************************************************)
\* The mask read with nan as true.
SelectedKeepsNaN(v) == v # Zero

\* jnp.where(jnp.isnan(selected), False, selected), read as a condition.
Selected(v) == IF IsNaN(v) THEN FALSE ELSE v # Zero

\* jnp.where(jnp.isnan(a), 0, a).
NanToZero(a) ==
    Array([shape |-> a.shape,
           data |-> [idx \in Indices(a.shape) |->
                        IF IsNaN(a.data[idx]) THEN Zero ELSE a.data[idx]]])

\* An upsample factor of zero let through.
UpsampleFactorErrorBelowZero(up) == IF up >= 0 THEN "none" ELSE "AssertionError"

\* assert upsample_factor >= 1
UpsampleFactorError(up) == IF up >= 1 THEN "none" ELSE "AssertionError"

\* The index of an array of the given shape that idx is broadcast from.
BroadcastIndex(shape, idx) == [d \in 1 .. Len(shape) |-> IF shape[d] = 1 THEN 0 ELSE idx[d]]

\* The unflattened wavevectors z (..., kx, ky, 2) upsampled.
UpsampledWavevectors(z, up) ==
    resize(z, Take(z.shape, Ndim(z) - 3)
                  \o <<up * z.shape[Ndim(z) - 2], up * z.shape[Ndim(z) - 1], z.shape[Ndim(z)]>>)

\* The angles of the upsampled bins, given what the call of
\* unflatten_transverse_wavevectors came to.
AnglesOfUnflattened(unflattened, wl, up) ==
    IF unflattened.err # "none" THEN unflattened
    ELSE Returned(angles_from_unflattened_transverse_wavevectors(
                      UpsampledWavevectors(NanToZero(unflattened.val), up), wl))

\* The angles of the upsampled bins for a flux of ndim axes.
upsampled_angles(ndim, wl, ipw, lv, e, bga, up) ==
    AnglesOfUnflattened(
        unflatten_transverse_wavevectors(
            transverse_wavevectors(atleast_nd(ipw, ndim - 1), lv, e), e, bga),
        wl, up)

\* angle_bounds_fn applied to the angles, nan read as False.
SelectedOfAngles(ang, fn) ==
    IF ang.err # "none" THEN ang
    ELSE Returned(Array([shape |-> ang.val.polar_angle.shape,
                         data |-> [idx \in Indices(ang.val.polar_angle.shape) |->
                             Selected(angle_bounds(fn, ang.val.polar_angle.data[idx],
                                                   ang.val.azimuthal_angle.data[idx]))]]))

\* The selection of the upsampled bins: one truth value for every bin of
\* the upsampled wavevector grid.
selected_bins(ndim, wl, ipw, lv, e, bga, fn, up) ==
    SelectedOfAngles(upsampled_angles(ndim, wl, ipw, lv, e, bga, up), fn)

\* The sum without the division by upsample_factor ** 2.
MaskedSumUnnormalised(r, sel, up) ==
    LET n == Ndim(r)
        shape == Take(r.shape, n - 4) \o <<r.shape[n]>>
    IN  Array([shape |-> shape,
               data |-> [idx \in Indices(shape) |->
                   LET b == Take(idx, n - 4)
                       s == idx[n - 3]
                       masked_flux(x, y, p) ==
                           IF sel.data[BroadcastIndex(sel.shape, b \o <<x, y>>)]
                           THEN r.data[b \o <<x, y, p, s>>] ELSE Zero
                   IN  SumTo([x \in 1 .. r.shape[n - 3] |->
                           SumTo([y \in 1 .. r.shape[n - 2] |->
                               SumTo([p \in 1 .. r.shape[n - 1] |-> masked_flux(x - 1, y - 1, p - 1)],
                                     r.shape[n - 1])],
                                 r.shape[n - 2])],
                             r.shape[n - 3])]])

\* jnp.sum(jnp.where(selected, flux, 0), axis=(-4, -3, -2)) / upsample_factor ** 2
\* for the upsampled flux r and the selection sel.
MaskedSum(r, sel, up) ==
    LET n == Ndim(r)
        shape == Take(r.shape, n - 4) \o <<r.shape[n]>>
    IN  Array([shape |-> shape,
               data |-> [idx \in Indices(shape) |->
                   LET b == Take(idx, n - 4)
                       s == idx[n - 3]
                       masked_flux(x, y, p) ==
                           IF sel.data[BroadcastIndex(sel.shape, b \o <<x, y>>)]
                           THEN r.data[b \o <<x, y, p, s>>] ELSE Zero
                   IN  Div(SumTo([x \in 1 .. r.shape[n - 3] |->
                               SumTo([y \in 1 .. r.shape[n - 2] |->
                                   SumTo([p \in 1 .. r.shape[n - 1] |->
                                             masked_flux(x - 1, y - 1, p - 1)],
                                         r.shape[n - 1])],
                                     r.shape[n - 2])],
                                 r.shape[n - 3]),
                           IntNum(up * up))]])

\* The shape of the flux f (..., kx, ky, 2, sources) after upsampling.
UpsampledFluxShape(f, up) ==
    LET n == Ndim(f)
    IN  Take(f.shape, n - 4) \o <<up * f.shape[n - 3], up * f.shape[n - 2],
                                   f.shape[n - 1], f.shape[n]>>

\* The masked sum, given what the calls of unflatten_flux and of the
\* selection came to.
MaskedSumOfUnflattened(unflattened, sel, up) ==
    IF unflattened.err # "none" THEN unflattened
    ELSE IF sel.err # "none" THEN sel
    ELSE Returned(MaskedSum(resize(NanToZero(unflattened.val),
                                   UpsampledFluxShape(unflattened.val, up)),
                            sel.val, up))

integrated_flux_upsampled(f, wl, ipw, lv, e, axes, fn, up) ==
    IF UpsampleFactorError(up) # "none" THEN Raised(UpsampleFactorError(up))
    ELSE IF AbsoluteAxesError(axes, Ndim(f)) # "none"
    THEN Raised(AbsoluteAxesError(axes, Ndim(f)))
    ELSE MaskedSumOfUnflattened(
             unflatten_flux(f, e, absolute_axes(axes, Ndim(f))),
             selected_bins(Ndim(f), wl, ipw, lv, e, absolute_axes(axes, Ndim(f)), fn, up),
             up)

(***************************************************************************)
(* _integrated_flux_weights: jax.grad of the sum of the integrated flux    *)
(* of a dummy flux, by reverse-mode differentiation.                       *)
(***************************************************************************)
\* jnp.ones(flux.shape[:-1] + (1,)).
DummyFlux(f) == Full(Take(f.shape, Ndim(f) - 1) \o <<1>>, One)

\* The transpose of MaskedSum at the cotangent of ones: the cotangent of
\* every entry of the upsampled flux of the given shape.
MaskedSumT(shape, sel, up) ==
    LET n == Len(shape)
    IN  Array([shape |-> shape,
               data |-> [idx \in Indices(shape) |->
                   IF sel.data[BroadcastIndex(sel.shape, Take(idx, n - 2))]
                   THEN Div(One, IntNum(up * up)) ELSE Zero]])

\* The transpose of NanToZero at the array z: no cotangent where z is nan.
NanToZeroT(z, ct) ==
    Array([shape |-> z.shape,
           data |-> [idx \in Indices(z.shape) |->
                        IF IsNaN(z.data[idx]) THEN Zero ELSE ct.data[idx]]])

RECURSIVE SumOver(_, _)
SumOver(set, ct) ==
    IF set = {} THEN Zero
    ELSE LET q == CHOOSE q \in set : TRUE
         IN  Add(ct.data[q], SumOver(set \ {q}, ct))

\* The entries of the unflattened array of labels that hold the label.
WrittenTo(labels, entries, label) == {q \in entries : labels.data[q] = label}

\* The transpose of unflatten_flux: every entry of the flux d takes the
\* cotangent of the entry of the unflattened array it was written to;
\* labels is the unflattened array of the offsets of the entries of d.
GatherWritten(d, labels, entries, ct) ==
    Array([shape |-> d.shape,
           data |-> [idx \in Indices(d.shape) |->
               SumOver(WrittenTo(labels, entries, IntNum(Ravel(d.shape, idx))), ct)]])

GatherLabelled(d, labels, ct) == GatherWritten(d, labels, Indices(labels.shape), ct)

UnflattenFluxT(d, e, bga, ct) ==
    GatherLabelled(d, Array(unflatten_flux(Arange(d.shape, 0), e, bga).val), ct)

\* The gradient at the dummy flux, given what the calls of unflatten_flux
\* on it and of the selection came to.
GradientAt(dummy_flux, unflattened, sel, e, bga, up) ==
    IF unflattened.err # "none" THEN unflattened
    ELSE IF sel.err # "none" THEN sel
    ELSE Returned(UnflattenFluxT(dummy_flux, e, bga,
             NanToZeroT(unflattened.val,
                 resizeT(MaskedSumT(UpsampledFluxShape(unflattened.val, up), sel.val, up),
                         unflattened.val.shape))))

integrated_flux_weights(f, wl, ipw, lv, e, axes, fn, up) ==
    IF AbsoluteAxesError(axes, Ndim(f)) # "none" THEN Raised(AbsoluteAxesError(axes, Ndim(f)))
    \* The function is run on the dummy flux, and raises what it raises.
    ELSE IF UpsampleFactorError(up) # "none" THEN Raised(UpsampleFactorError(up))
    ELSE GradientAt(
             DummyFlux(f),
             unflatten_flux(DummyFlux(f), e, absolute_axes(axes, Ndim(f))),
             selected_bins(Ndim(f), wl, ipw, lv, e, absolute_axes(axes, Ndim(f)), fn, up),
             e, absolute_axes(axes, Ndim(f)), up)

(***************************************************************************)
(* integrated_flux                                                         *)
(***************************************************************************)
\* The axes of a flux of n axes that the sum runs over (counted from 1), and
\* the index of the flux that the index r of the sum and the summed indices
\* a, b (Brillouin grid) and k (order) stand for.
SummedAxes(bga, n) == {bga[1] + 1, bga[2] + 1, n - 1}

FluxIndex(r, bga, n, a, b, k) ==
    [d \in 1 .. n |->
        IF d = bga[1] + 1 THEN a
        ELSE IF d = bga[2] + 1 THEN b
        ELSE IF d = n - 1 THEN k
        ELSE r[d - Cardinality({x \in SummedAxes(bga, n) : x < d})]]

\* The weights applied to the first source column only.
WeightedSumFirstSource(w, f, bga) ==
    LET n == Ndim(f)
        kept == Without(Range0(n), {x - 1 : x \in SummedAxes(bga, n)})
        shape == [d \in 1 .. Len(kept) |-> f.shape[kept[d] + 1]]
    IN  Array([shape |-> shape,
               data |-> [r \in Indices(shape) |->
                   SumTo([a \in 1 .. f.shape[bga[1] + 1] |->
                       SumTo([b \in 1 .. f.shape[bga[2] + 1] |->
                           SumTo([k \in 1 .. f.shape[n - 1] |->
                               LET idx == FluxIndex(r, bga, n, a - 1, b - 1, k - 1)
                                   first == [d \in 1 .. n |-> IF d = n THEN 0 ELSE idx[d]]
                               IN  Mul(w.data[first], f.data[first])],
                                 f.shape[n - 1])],
                             f.shape[bga[2] + 1])],
                         f.shape[bga[1] + 1])]])

\* jnp.sum(weights * flux, axis=brillouin_grid_axes + (-2,)); the weights
\* have a single source column, and are broadcast over those of the flux.
WeightedSum(w, f, bga) ==
    LET n == Ndim(f)
        kept == Without(Range0(n), {x - 1 : x \in SummedAxes(bga, n)})
        shape == [d \in 1 .. Len(kept) |-> f.shape[kept[d] + 1]]
    IN  Array([shape |-> shape,
               data |-> [r \in Indices(shape) |->
                   SumTo([a \in 1 .. f.shape[bga[1] + 1] |->
                       SumTo([b \in 1 .. f.shape[bga[2] + 1] |->
                           SumTo([k \in 1 .. f.shape[n - 1] |->
                               LET idx == FluxIndex(r, bga, n, a - 1, b - 1, k - 1)
                               IN  Mul(w.data[BroadcastIndex(w.shape, idx)], f.data[idx])],
                                 f.shape[n - 1])],
                             f.shape[bga[2] + 1])],
                         f.shape[bga[1] + 1])]])

\* The return statement of integrated_flux, given what the call of
\* _integrated_flux_weights came to.
integrated_flux_sum(w, f, axes) ==
    IF w.err # "none" THEN Raised(w.err)
    ELSE Returned(WeightedSum(w.val, f, absolute_axes(axes, Ndim(f))))

integrated_flux(f, wl, ipw, lv, e, axes, fn, up) ==
    integrated_flux_sum(integrated_flux_weights(f, wl, ipw, lv, e, axes, fn, up), f, axes)

(***************************************************************************)
(* Inputs.                                                                 *)
(***************************************************************************)
Coefficients == ((0 - 1) .. MaxOrder) \X ((0 - 1) .. MaxOrder)

\* The expansions of no, one or two terms; coefficient pairs may repeat.
Expansions ==
    {<< >>} \cup {<<p>> : p \in Coefficients} \cup {<<p, q>> : p, q \in Coefficients}

BzSizes == 1 .. MaxBz

Unused == Full(<<0>>, NaN)

(***************************************************************************)
(* Calls of unflatten.                                                     *)
(***************************************************************************)
InitUnflatten ==
    /\ pc = "unflatten"
    /\ expansion \in Expansions
    /\ \E batch_shape \in {<< >>, <<2>>}, bx \in BzSizes, by \in BzSizes :
          flat = Arange(batch_shape \o <<bx, by, num_terms(expansion)>>, 0)
    /\ flux = Unused
    /\ brillouin_grid_axes = <<0, 1>>
    /\ in_plane_wavevector = Unused
    /\ primitive_lattice_vectors = <<Zero, Zero>>
    /\ wavelength = One
    /\ angle_bounds_fn = "all"
    /\ upsample_factor = 1
    /\ flat_transverse_wavevectors = Unused
    /\ weights = NoResult
    /\ unflattened_wavevectors = NoResult
    /\ result = NoResult

Others == <<expansion, flat, flux, flat_transverse_wavevectors, brillouin_grid_axes,
            in_plane_wavevector, primitive_lattice_vectors, wavelength,
            angle_bounds_fn, upsample_factor>>

\* unflatten(flat, expansion) returns.
UnflattenReturns ==
    /\ pc = "unflatten"
    /\ UnflattenError(flat, expansion) = "none"
    /\ \E prio \in (IF Distinct(expansion) THEN {Identity(num_terms(expansion))}
                                             ELSE Rankings(num_terms(expansion))) :
          result' = Returned(UnflattenWith(flat, expansion, prio))
    /\ pc' = "done"
    /\ UNCHANGED <<Others, weights, unflattened_wavevectors>>

\* unflatten(flat, expansion) raises.
UnflattenRaises ==
    /\ pc = "unflatten"
    /\ UnflattenError(flat, expansion) # "none"
    /\ result' = Raised(UnflattenError(flat, expansion))
    /\ pc' = "done"
    /\ UNCHANGED <<Others, weights, unflattened_wavevectors>>

NextUnflatten == UnflattenReturns \/ UnflattenRaises

SpecUnflatten == InitUnflatten /\ [][NextUnflatten]_vars

(***************************************************************************)
(* Calls of unflatten_flux.                                                *)
(***************************************************************************)
\* Expansions as basis.generate_expansion makes them: pairwise distinct
\* coefficient pairs, the zeroth order first.
GeneratedExpansions ==
    {<<<<0, 0>>>>} \cup {<<<<0, 0>>, q>> : q \in Coefficients \ {<<0, 0>>}}

\* The pairs of distinct leading axes of a five-axis flux, both counted from
\* the front or both from the end.
AxesPairs ==
    LET front == {p \in (0 .. 2) \X (0 .. 2) : p[1] # p[2]}
    IN  front \cup {<<p[1] - 5, p[2] - 5>> : p \in front}

\* A flux (..., 2 * num_terms, num_sources) with three leading axes: the two
\* Brillouin grid axes and a batch axis of length 2.
FluxShapes(e, axes) ==
    LET bga == absolute_axes(axes, 5)
    IN  {[d \in 1 .. 5 |->
            IF d = 4 THEN 2 * num_terms(e) ELSE IF d = 5 THEN 2
            ELSE IF d = Min2(bga) + 1 THEN bx ELSE IF d = Max2(bga) + 1 THEN by ELSE 2]
         : bx \in BzSizes, by \in BzSizes}

InitUnflattenFlux ==
    /\ pc = "unflatten_flux"
    /\ expansion \in GeneratedExpansions
    /\ brillouin_grid_axes \in AxesPairs
    /\ \E shape \in FluxShapes(expansion, brillouin_grid_axes) : flux = Arange(shape, 0)
    /\ flat = Unused
    /\ in_plane_wavevector = Unused
    /\ primitive_lattice_vectors = <<Zero, Zero>>
    /\ wavelength = One
    /\ angle_bounds_fn = "all"
    /\ upsample_factor = 1
    /\ flat_transverse_wavevectors = Unused
    /\ weights = NoResult
    /\ unflattened_wavevectors = NoResult
    /\ result = NoResult

\* unflatten_flux(flux, expansion, brillouin_grid_axes).
UnflattenFlux ==
    /\ pc = "unflatten_flux"
    /\ result' = unflatten_flux(flux, expansion, brillouin_grid_axes)
    /\ pc' = "done"
    /\ UNCHANGED <<Others, weights, unflattened_wavevectors>>

NextUnflattenFlux == UnflattenFlux

SpecUnflattenFlux == InitUnflattenFlux /\ [][NextUnflattenFlux]_vars

(***************************************************************************)
(* Calls of unflatten_transverse_wavevectors and unflatten_flux with the   *)
(* same expansion and brillouin_grid_axes, on arrays over the same         *)
(* Brillouin zone grid.                                                    *)
(***************************************************************************)
\* The wavevectors (..., num_terms, 2) that go with a flux
\* (..., 2 * num_terms, num_sources): the same leading axes.
WavevectorShape(f, e) == Take(f.shape, Ndim(f) - 2) \o <<num_terms(e), 2>>

InitAxisRoles ==
    /\ pc = "unflatten_transverse_wavevectors"
    /\ expansion \in GeneratedExpansions
    /\ brillouin_grid_axes \in AxesPairs
    /\ \E shape \in FluxShapes(expansion, brillouin_grid_axes) : flux = Arange(shape, 0)
    /\ flat_transverse_wavevectors = Arange(WavevectorShape(flux, expansion), 0)
    /\ flat = Unused
    /\ in_plane_wavevector = Unused
    /\ primitive_lattice_vectors = <<Zero, Zero>>
    /\ wavelength = One
    /\ angle_bounds_fn = "all"
    /\ upsample_factor = 1
    /\ weights = NoResult
    /\ unflattened_wavevectors = NoResult
    /\ result = NoResult

\* unflatten_transverse_wavevectors(transverse_wavevectors, expansion,
\* brillouin_grid_axes); unflatten_flux is called next with the same axes.
UnflattenTransverseWavevectors ==
    /\ pc = "unflatten_transverse_wavevectors"
    /\ unflattened_wavevectors' =
           unflatten_transverse_wavevectors(flat_transverse_wavevectors, expansion,
                                            brillouin_grid_axes)
    /\ pc' = "unflatten_flux"
    /\ UNCHANGED <<Others, weights, result>>

NextAxisRoles == UnflattenTransverseWavevectors \/ UnflattenFlux

SpecAxisRoles == InitAxisRoles /\ [][NextAxisRoles]_vars

(***************************************************************************)
(* Calls of farfield_profile.                                              *)
(***************************************************************************)
\* A rectangular and an oblique lattice; their reciprocal vectors are
\* (3, 0), (0, 4) and (3, -3), (0, 4).
Lattices ==
    {[u |-> <<Num(1, 3), Zero>>, v |-> <<Zero, Num(1, 4)>>],
     [u |-> <<Num(1, 3), Zero>>, v |-> <<Num(1, 4), Num(1, 4)>>]}

\* Free-space wavevectors 2 * pi / wavelength of 2, 3, 5 and 8.
Wavelengths == {Num(1, 2), Num(1, 3), Num(1, 5), Num(1, 8)}

InitFarfield ==
    /\ pc = "farfield_profile"
    /\ expansion \in GeneratedExpansions
    /\ brillouin_grid_axes = <<0, 1>>
    /\ primitive_lattice_vectors \in Lattices
    /\ wavelength \in Wavelengths
    /\ \E bx \in BzSizes, by \in BzSizes :
          /\ flux = Arange(<<bx, by, 2 * num_terms(expansion), 1>>, 0)
          /\ in_plane_wavevector =
                 brillouin_zone_in_plane_wavevector(bx, by, primitive_lattice_vectors)
    /\ flat = Unused
    /\ angle_bounds_fn = "all"
    /\ upsample_factor = 1
    /\ flat_transverse_wavevectors = Unused
    /\ weights = NoResult
    /\ unflattened_wavevectors = NoResult
    /\ result = NoResult

\* farfield_profile(flux, wavelength, in_plane_wavevector,
\* primitive_lattice_vectors, expansion, brillouin_grid_axes).
FarfieldProfile ==
    /\ pc = "farfield_profile"
    /\ result' = farfield_profile(flux, wavelength, in_plane_wavevector,
                                  primitive_lattice_vectors, expansion, brillouin_grid_axes)
    /\ pc' = "done"
    /\ UNCHANGED <<Others, weights, unflattened_wavevectors>>

NextFarfield == FarfieldProfile

SpecFarfield == InitFarfield /\ [][NextFarfield]_vars

(***************************************************************************)
(* Calls of integrated_flux.                                               *)
(***************************************************************************)
\* Upsample factors run over -1 .. MaxUp.
MaxUp == 2

\* One order; two orders side by side (a full grid); two orders on the
\* diagonal (a grid with gaps).
IntegratedExpansions ==
    {<<<<0, 0>>>>, <<<<0, 0>>, <<1, 0>>>>, <<<<0, 0>>, <<1, 1>>>>}

\* The shapes of the Brillouin zone grid.
IntegratedGrids == {<<1, 1>>, <<2, 1>>, <<2, 2>>}

\* A free-space wavevector of 2: the lowest orders propagate, the others
\* are evanescent.
IntegratedWavelengths == {Num(1, 2)}

\* A flux (num_bz_kx, num_bz_ky, 2 * num_terms, 2) without negative entries,
\* and a flux with entries of both signs and a leading batch axis of length
\* 2, its Brillouin grid axes counted from the end; two source columns each.
IntegratedFluxes(e, grid) ==
    LET shape == <<grid[1], grid[2], 2 * num_terms(e), 2>>
    IN  {[flux |-> Arange(shape, 0), axes |-> <<0, 1>>],
         [flux |-> Arange(<<2>> \o shape, 0 - 3), axes |-> <<0 - 4, 0 - 3>>]}

InitIntegrated ==
    /\ pc = "integrated_flux"
    /\ expansion \in IntegratedExpansions
    /\ primitive_lattice_vectors \in Lattices
    /\ wavelength \in IntegratedWavelengths
    /\ angle_bounds_fn \in Masks
    /\ upsample_factor \in (0 - 1) .. MaxUp
    /\ \E grid \in IntegratedGrids :
          /\ \E fa \in IntegratedFluxes(expansion, grid) :
                flux = fa.flux /\ brillouin_grid_axes = fa.axes
          /\ in_plane_wavevector =
                 brillouin_zone_in_plane_wavevector(grid[1], grid[2], primitive_lattice_vectors)
    /\ flat = Unused
    /\ flat_transverse_wavevectors = Unused
    /\ weights = NoResult
    /\ unflattened_wavevectors = NoResult
    /\ result = NoResult

\* integrated_flux(flux, wavelength, in_plane_wavevector,
\* primitive_lattice_vectors, expansion, brillouin_grid_axes, angle_bounds_fn,
\* upsample_factor).
IntegratedFlux ==
    /\ pc = "integrated_flux"
    /\ weights' = integrated_flux_weights(flux, wavelength, in_plane_wavevector,
                                          primitive_lattice_vectors, expansion,
                                          brillouin_grid_axes, angle_bounds_fn,
                                          upsample_factor)
    /\ result' = integrated_flux_sum(weights', flux, brillouin_grid_axes)
    /\ pc' = "done"
    /\ UNCHANGED <<Others, unflattened_wavevectors>>

NextIntegrated == IntegratedFlux

SpecIntegrated == InitIntegrated /\ [][NextIntegrated]_vars

(***************************************************************************)
(* Properties of unflatten.                                                *)
(***************************************************************************)
FlatBatch == Indices(Take(flat.shape, Ndim(flat) - 3))
NumBzKx == flat.shape[Ndim(flat) - 2]
NumBzKy == flat.shape[Ndim(flat) - 1]
Samples == (0 .. (NumBzKx - 1)) \X (0 .. (NumBzKy - 1))
Terms == 1 .. num_terms(expansion)
MinI == SeqMin(CoefI(expansion))
MinJ == SeqMin(CoefJ(expansion))
MaxI == SeqMax(CoefI(expansion))
MaxJ == SeqMax(CoefJ(expansion))

\* The destination bin as the documentation states it.
DestX(k, bz_x) == expansion[k][1] * NumBzKx + bz_x - MinI * NumBzKx
DestY(k, bz_y) == expansion[k][2] * NumBzKy + bz_y - MinJ * NumBzKy
Destinations == {<<DestX(k, s[1]), DestY(k, s[2])>> : k \in Terms, s \in Samples}

UnflattenDone == pc = "done" /\ result.err = "none"

\* C1: for an expansion of pairwise distinct coefficient pairs, the output of
\* unflatten read at the destination bin of (bz_x, bz_y, k) is exactly
\* flat[..., bz_x, bz_y, k], and every bin that is no destination holds nan.
C1_RoundTrip ==
    (UnflattenDone /\ Distinct(expansion)) =>
        \A b \in FlatBatch :
            /\ \A k \in Terms, s \in Samples :
                  result.val.data[b \o <<DestX(k, s[1]), DestY(k, s[2])>>]
                      = flat.data[b \o <<s[1], s[2], k - 1>>]
            /\ \A idx \in DOMAIN result.val.data :
                  (Take(idx, Len(b)) = b /\ Drop(idx, Len(b)) \notin Destinations)
                      => IsNaN(result.val.data[idx])

\* A batched call with two distinct orders that leave a gap in the grid.
C1_Witness ==
    /\ UnflattenDone /\ Distinct(expansion)
    /\ num_terms(expansion) = 2 /\ FlatBatch # {<< >>} /\ NumBzKx = 2
    /\ \E idx \in DOMAIN result.val.data : IsNaN(result.val.data[idx])
    /\ \E idx \in DOMAIN result.val.data : ~IsNaN(result.val.data[idx])

\* C2: the output has the batch shape followed by axes of length
\* (max(i)-min(i)+1)*num_bz_kx and (max(j)-min(j)+1)*num_bz_ky; the bin the
\* code computes for order k and sample (bz_x, bz_y) lies in the grid, in the
\* block of its order, and is strictly increasing in (order value, sample
\* index) taken lexicographically; an axis whose orders all share one value
\* has extent num_bz.
C2_Layout ==
    UnflattenDone =>
        LET ci == CoefI(expansion)
            cj == CoefJ(expansion)
            bx(k, s) == Merged(ci, NumBzKx, k, s)
            by(k, s) == Merged(cj, NumBzKy, k, s)
            nkx == result.val.shape[Ndim(result.val) - 1]
            nky == result.val.shape[Ndim(result.val)]
        IN  /\ result.val.shape = Take(flat.shape, Ndim(flat) - 3)
                   \o <<(MaxI - MinI + 1) * NumBzKx, (MaxJ - MinJ + 1) * NumBzKy>>
            /\ \A k \in Terms, s \in Samples :
                  /\ bx(k, s[1]) \in 0 .. (nkx - 1)
                  /\ by(k, s[2]) \in 0 .. (nky - 1)
                  /\ (ci[k] - MinI) * NumBzKx <= bx(k, s[1])
                  /\ bx(k, s[1]) < (ci[k] - MinI + 1) * NumBzKx
                  /\ (cj[k] - MinJ) * NumBzKy <= by(k, s[2])
                  /\ by(k, s[2]) < (cj[k] - MinJ + 1) * NumBzKy
            /\ \A k, l \in Terms, s, t \in Samples :
                  /\ (ci[k] < ci[l] \/ (ci[k] = ci[l] /\ s[1] < t[1]))
                        => bx(k, s[1]) < bx(l, t[1])
                  /\ (cj[k] < cj[l] \/ (cj[k] = cj[l] /\ s[2] < t[2]))
                        => by(k, s[2]) < by(l, t[2])
            /\ (MaxI = MinI) => nkx = NumBzKx
            /\ (MaxJ = MinJ) => nky = NumBzKy

\* Two orders that differ along the first axis only, two samples per axis.
C2_Witness ==
    /\ UnflattenDone
    /\ MaxI > MinI /\ MaxJ = MinJ /\ NumBzKx = 2 /\ NumBzKy = 2
    /\ expansion[1][1] > expansion[2][1]

\* C3: unflatten of an expansion without terms, and a flat array whose last
\* axis has length 0, returns an empty grid and raises nothing.
C3_EmptyExpansionReturns ==
    (pc = "done" /\ num_terms(expansion) = 0 /\ Last(flat.shape) = 0) =>
        /\ result.err = "none"
        /\ DOMAIN result.val.data = {}

(***************************************************************************)
(* Properties of unflatten_flux.                                           *)
(***************************************************************************)
FluxDone == pc = "done" /\ result.err = "none"
FluxNdim == Ndim(flux)
FluxBga == absolute_axes(brillouin_grid_axes, FluxNdim)
\* The Brillouin grid axes in the order they have in flux, as in the
\* documented layout (..., num_bz_kx, num_bz_ky, ..., 2 * num_terms, num_sources).
KxAxis == Min2(FluxBga)
KyAxis == Max2(FluxBga)
FluxBzKx == flux.shape[KxAxis + 1]
FluxBzKy == flux.shape[KyAxis + 1]
\* The batch axes that are not Brillouin grid axes, in their order in flux.
RemainingAxes == Without(Range0(FluxNdim - 2), {KxAxis, KyAxis})
BinX(k, bz_x) == expansion[k][1] * FluxBzKx + bz_x - MinI * FluxBzKx
BinY(k, bz_y) == expansion[k][2] * FluxBzKy + bz_y - MinJ * FluxBzKy

\* C4: unflatten_flux returns an array of shape (remaining batch axes in
\* their order, num_kx, num_ky, 2, num_sources) in which, for every
\* polarization p, order k, sample (bz_x, bz_y), source s and batch index,
\* the entry [batch, bin_x(k, bz_x), bin_y(k, bz_y), p, s] is the input entry
\* p * num_terms + k of the 2 * num_terms axis for that batch index, sample
\* and source; the bins do not depend on p.  bz_x is the index along the
\* Brillouin grid axis that comes first in flux, bz_y along the other.
C4_FluxMapping ==
    FluxDone =>
        LET nt == num_terms(expansion)
            n == FluxNdim
        IN  /\ result.val.shape =
                   [d \in 1 .. Len(RemainingAxes) |-> flux.shape[RemainingAxes[d] + 1]]
                   \o <<(MaxI - MinI + 1) * FluxBzKx, (MaxJ - MinJ + 1) * FluxBzKy,
                        2, flux.shape[n]>>
            /\ \A p \in 0 .. 1, k \in 1 .. nt, s \in 0 .. (flux.shape[n] - 1),
                  bz_x \in 0 .. (FluxBzKx - 1), bz_y \in 0 .. (FluxBzKy - 1),
                  b \in Indices([d \in 1 .. Len(RemainingAxes) |->
                                    flux.shape[RemainingAxes[d] + 1]]) :
                  LET src == [d \in 1 .. n |->
                                 IF d = n THEN s
                                 ELSE IF d = n - 1 THEN p * nt + (k - 1)
                                 ELSE IF d = KxAxis + 1 THEN bz_x
                                 ELSE IF d = KyAxis + 1 THEN bz_y
                                 ELSE b[CHOOSE r \in 1 .. Len(RemainingAxes) :
                                            RemainingAxes[r] = d - 1]]
                  IN  result.val.data[b \o <<BinX(k, bz_x), BinY(k, bz_y), p, s>>]
                          = flux.data[src]

\* Two orders, Brillouin grid axes after a batch axis, of different lengths.
C4_Witness ==
    /\ FluxDone
    /\ num_terms(expansion) = 2
    /\ FluxBga = <<1, 2>> /\ FluxBzKx = 2 /\ FluxBzKy = 1
    /\ MaxI > MinI

(***************************************************************************)
(* Properties of the angles and of the solid angle.                        *)
(***************************************************************************)
FarfieldDone == pc = "done" /\ result.err = "none"

\* The unflattened transverse wavevectors farfield_profile works on.
Wavevectors ==
    unflatten_transverse_wavevectors(
        transverse_wavevectors(in_plane_wavevector, primitive_lattice_vectors, expansion),
        expansion, brillouin_grid_axes).val

Bins == DOMAIN result.val.polar_angle.data
HasData(tw, bin) == IsFinite(tw.data[bin \o <<0>>]) /\ IsFinite(tw.data[bin \o <<1>>])
\* The squared magnitude of the transverse wavevector, and of the
\* free-space wavevector 2 * pi / wavelength.
Kt2(tw, bin) ==
    Add(Mul(tw.data[bin \o <<0>>], tw.data[bin \o <<0>>]),
        Mul(tw.data[bin \o <<1>>], tw.data[bin \o <<1>>]))
K02 == Div(One, Mul(wavelength, wavelength))

\* C8: for every bin with a finite transverse wavevector the polar angle lies
\* in [0, pi/2]; it is pi/2 when the magnitude is 2*pi/wavelength or more and
\* arcsin(magnitude * wavelength / (2*pi)) otherwise; the azimuthal angle is
\* atan2(ky, kx).
C8_AngleClamp ==
    FarfieldDone =>
        LET tw == Wavevectors
        IN  \A bin \in Bins : HasData(tw, bin) =>
            LET polar == result.val.polar_angle.data[bin]
            IN  /\ Leq(Zero, polar.sin2) /\ Leq(polar.sin2, One)
                /\ Leq(K02, Kt2(tw, bin)) => polar = HalfPi
                /\ Less(Kt2(tw, bin), K02) =>
                       polar.sin2 = Mul(Kt2(tw, bin), Mul(wavelength, wavelength))
                /\ result.val.azimuthal_angle.data[bin]
                       = Atan2(tw.data[bin \o <<1>>], tw.data[bin \o <<0>>])

\* A grid with a bin exactly at 2*pi/wavelength, a bin beyond it, a bin
\* inside it and a bin without data.
C8_Witness ==
    /\ FarfieldDone
    /\ LET tw == Wavevectors
       IN  /\ \E bin \in Bins : HasData(tw, bin) /\ Kt2(tw, bin) = K02
           /\ \E bin \in Bins : HasData(tw, bin) /\ Less(K02, Kt2(tw, bin))
           /\ \E bin \in Bins : /\ HasData(tw, bin)
                                /\ Less(Zero, Kt2(tw, bin)) /\ Less(Kt2(tw, bin), K02)
           /\ \E bin \in Bins : ~HasData(tw, bin)

NumKx == result.val.solid_angle.shape[1]
NumKy == result.val.solid_angle.shape[2]
\* A grid is degenerate when an axis has a single bin: every cell is flat.
NonDegenerate == NumKx >= 2 /\ NumKy >= 2
PositiveFinite(root) == IsFinite(root.sq) /\ Less(Zero, root.sq)
SolidAngle(bin) == result.val.solid_angle.data[bin]

\* The bins the cell of a bin is built from: the bin and its neighbours in
\* the edge-replicated grid, all but the one at (+1, +1).
CellBins(bin) ==
    {<<Clamp(bin[1] + d[1], 0, NumKx - 1), Clamp(bin[2] + d[2], 0, NumKy - 1)>> :
        d \in (((0 - 1) .. 1) \X ((0 - 1) .. 1)) \ {<<1, 1>>}}

\* C7 as claimed: in a non-degenerate grid the solid angle of every bin is
\* strictly positive and finite, also in boundary bins, in bins at or
\* beyond 2*pi/wavelength and in bins next to bins without data.
C7_SolidAnglePositive ==
    (FarfieldDone /\ NonDegenerate) => \A bin \in Bins : PositiveFinite(SolidAngle(bin))

\* C7 as amended: in a non-degenerate grid the solid angle is strictly
\* positive and finite in every bin, boundary bins included, whose
\* transverse wavevector is shorter than 2*pi/wavelength and whose cell is
\* built from bins with data only; it is nan in a bin with data whose
\* wavevector is longer than 2*pi/wavelength, and nan in a bin whose cell
\* takes in a bin without data.
C7_SolidAngleAmended ==
    (FarfieldDone /\ NonDegenerate) =>
        LET tw == Wavevectors
        IN  \A bin \in Bins :
            /\ ((\A c \in CellBins(bin) : HasData(tw, c)) /\ Less(Kt2(tw, bin), K02))
                   => PositiveFinite(SolidAngle(bin))
            /\ (HasData(tw, bin) /\ Less(K02, Kt2(tw, bin))) => IsNaN(SolidAngle(bin).sq)
            /\ (\E c \in CellBins(bin) : ~HasData(tw, c)) => IsNaN(SolidAngle(bin).sq)

\* A non-degenerate grid with a propagating boundary bin, an evanescent bin
\* and a propagating bin next to a gap.
C7_Witness ==
    /\ FarfieldDone /\ NonDegenerate
    /\ LET tw == Wavevectors
       IN  /\ \E bin \in Bins : /\ bin[1] = 0
                                /\ \A c \in CellBins(bin) : HasData(tw, c)
                                /\ Less(Kt2(tw, bin), K02)
           /\ \E bin \in Bins : HasData(tw, bin) /\ Less(K02, Kt2(tw, bin))
           /\ \E bin \in Bins : /\ HasData(tw, bin) /\ Less(Kt2(tw, bin), K02)
                                /\ \E c \in CellBins(bin) : ~HasData(tw, c)

(***************************************************************************)
(* Properties of integrated_flux.                                          *)
(***************************************************************************)
IntegratedDone == pc = "done"

\* The integration weights of the call, and those of a call that differs in
\* the entries of the flux only.
Weights == weights.val

WeightsOfOtherFlux ==
    integrated_flux_weights(Arange(flux.shape, 7), wavelength, in_plane_wavevector,
                            primitive_lattice_vectors, expansion, brillouin_grid_axes,
                            angle_bounds_fn, upsample_factor).val

\* The direct result of _integrated_flux_upsampled on the flux of the call.
Direct ==
    integrated_flux_upsampled(flux, wavelength, in_plane_wavevector,
                              primitive_lattice_vectors, expansion, brillouin_grid_axes,
                              angle_bounds_fn, upsample_factor)

\* C5: for an upsample factor of 1 or more, integrated_flux (the sum of
\* weights * flux, the weights being the gradient at the dummy flux) returns,
\* for every source column, what _integrated_flux_upsampled returns on the
\* flux itself; the weights are the same for every flux of the same shape.
C5_WeightByGradient ==
    (IntegratedDone /\ upsample_factor >= 1) =>
        /\ result.err = "none"
        /\ Direct.err = "none"
        /\ result.val = Direct.val
        /\ Weights = WeightsOfOtherFlux

\* An upsampled call with a cone mask, two source columns, entries of both
\* signs, and a weight strictly between 0 and 1.
C5_Witness ==
    /\ IntegratedDone /\ result.err = "none"
    /\ upsample_factor >= 2 /\ angle_bounds_fn = "cone"
    /\ Last(flux.shape) = 2
    /\ \E idx \in DOMAIN flux.data : Less(flux.data[idx], Zero)
    /\ \E idx \in DOMAIN flux.data : Less(Zero, flux.data[idx])
    /\ LET w == Weights
       IN  \E idx \in DOMAIN w.data : Less(Zero, w.data[idx]) /\ Less(w.data[idx], One)
    /\ \E r \in DOMAIN result.val.data : result.val.data[r] # Zero

\* The unflattened flux of the call.
UnflattenedFlux == unflatten_flux(flux, expansion, brillouin_grid_axes).val

\* The shape of the flux without the Brillouin grid axes and the
\* 2 * num_terms axis.
BatchAndSourceShape ==
    LET n == Ndim(flux)
        bga == absolute_axes(brillouin_grid_axes, n)
        kept == Without(Range0(n), SeqRange(bga) \cup {n - 2})
    IN  [d \in 1 .. Len(kept) |-> flux.shape[kept[d] + 1]]

\* C6: with the mask that is true everywhere, an upsample factor of 1 and
\* pairwise distinct coefficients, integrated_flux returns the sum of the
\* unflattened flux over kx, ky and the polarization, bins without data
\* left out; every weight is 1; the result has the shape of the flux without
\* the Brillouin grid axes and the 2 * num_terms axis.
C6_FullSum ==
    (IntegratedDone /\ angle_bounds_fn = "all" /\ upsample_factor = 1
        /\ Distinct(expansion)) =>
        /\ result.err = "none"
        /\ result.val.shape = BatchAndSourceShape
        /\ LET u == UnflattenedFlux
               n == Ndim(u)
           IN  \A r \in Indices(BatchAndSourceShape) :
                   result.val.data[r] =
                       SumOver({q \in Indices(u.shape) :
                                   /\ Take(q, n - 4) = Take(r, n - 4)
                                   /\ q[n] = Last(r)
                                   /\ ~IsNaN(u.data[q])}, u)
        /\ LET w == Weights
           IN  /\ w.shape = Take(flux.shape, Ndim(flux) - 1) \o <<1>>
               /\ \A idx \in Indices(w.shape) : w.data[idx] = One

\* A full sum over a grid with bins without data, for a flux with a batch
\* axis.
C6_Witness ==
    /\ IntegratedDone /\ result.err = "none"
    /\ angle_bounds_fn = "all" /\ upsample_factor = 1 /\ Distinct(expansion)
    /\ Ndim(flux) = 5
    /\ LET u == UnflattenedFlux
       IN  /\ \E q \in Indices(u.shape) : IsNaN(u.data[q])
           /\ \E q \in Indices(u.shape) : Less(Zero, u.data[q])
    /\ \E r \in DOMAIN result.val.data : Less(Zero, result.val.data[r])

\* C9: a call of integrated_flux with an upsample factor below 1 raises; it
\* returns no value.
C9_InvalidUpsampleFactor ==
    (IntegratedDone /\ upsample_factor < 1) =>
        result.err # "none" /\ result.val = Raised(result.err).val

\* A call with an upsample factor of 0 has raised the assertion error.
C9_Witness ==
    IntegratedDone /\ upsample_factor = 0 /\ result.err = "AssertionError"

\* The angles of the upsampled bins of the call.
UpsampledAngles ==
    upsampled_angles(Ndim(flux), wavelength, in_plane_wavevector,
                     primitive_lattice_vectors, expansion,
                     absolute_axes(brillouin_grid_axes, Ndim(flux)), upsample_factor).val

\* Mask a is true only where mask b is true, over the bins with angles ang.
Within(a, b, ang) ==
    \A bin \in Indices(ang.polar_angle.shape) :
        angle_bounds(a, ang.polar_angle.data[bin], ang.azimuthal_angle.data[bin]) = One
            => angle_bounds(b, ang.polar_angle.data[bin], ang.azimuthal_angle.data[bin]) = One

\* The result of the call made with the mask fn instead.
ResultUnder(fn) ==
    integrated_flux(flux, wavelength, in_plane_wavevector, primitive_lattice_vectors,
                    expansion, brillouin_grid_axes, fn, upsample_factor).val

NonNegative(a) == \A idx \in Indices(a.shape) : Leq(Zero, a.data[idx])

\* Every entry of a is at most the same entry of b.
AtMost(a, b) ==
    a.shape = b.shape /\ \A idx \in Indices(a.shape) : Leq(a.data[idx], b.data[idx])

\* C10: for a flux without negative entries and an upsample factor of 1 or
\* more, the result under a mask is at most the result under every mask that
\* is true wherever the first is; it is at least 0 and at most the result
\* under the mask that is true everywhere; every weight is a number that is
\* not negative.
C10_MaskMonotone ==
    (IntegratedDone /\ upsample_factor >= 1 /\ NonNegative(flux)) =>
        /\ result.err = "none"
        /\ NonNegative(result.val)
        /\ AtMost(result.val, ResultUnder("all"))
        /\ LET ang == UpsampledAngles
           IN  \A b \in Masks \ {"all", angle_bounds_fn} :
                   Within(angle_bounds_fn, b, ang) => AtMost(result.val, ResultUnder(b))
        /\ LET w == Weights
           IN  \A idx \in Indices(w.shape) : IsFinite(w.data[idx]) /\ Leq(Zero, w.data[idx])

\* An upsampled call under the cone mask whose result is, in some entry,
\* strictly below that under the mask of the propagating bins, which is
\* strictly below that under the mask that is true everywhere.
C10_Witness ==
    /\ IntegratedDone /\ result.err = "none"
    /\ upsample_factor >= 2 /\ NonNegative(flux)
    /\ angle_bounds_fn = "cone"
    /\ Within("cone", "propagating", UpsampledAngles)
    /\ \E r \in DOMAIN result.val.data :
           /\ Less(Zero, result.val.data[r])
           /\ Less(result.val.data[r], ResultUnder("propagating").data[r])
           /\ Less(ResultUnder("propagating").data[r], ResultUnder("all").data[r])


(***************************************************************************)
(* The roles of the two Brillouin grid axes.                               *)
(***************************************************************************)
RolesDone == pc = "done" /\ result.err = "none" /\ unflattened_wavevectors.err = "none"

\* Axis a of the inputs is merged with the first coefficient i into num_kx
\* and axis b with the second coefficient j into num_ky, in the flux and in
\* the wavevectors alike: both results have the shape this gives, and every
\* (order, sample) pair is at the bin (i * n_a + s_a - min(i) * n_a,
\* j * n_b + s_b - min(j) * n_b) of both.
AxisRoles(a, b) ==
    LET nt == num_terms(expansion)
        n == FluxNdim
        bz_a == flux.shape[a + 1]
        bz_b == flux.shape[b + 1]
        batch == [d \in 1 .. Len(RemainingAxes) |-> flux.shape[RemainingAxes[d] + 1]]
        num_kx == (MaxI - MinI + 1) * bz_a
        num_ky == (MaxJ - MinJ + 1) * bz_b
        bin(k, s_a, s_b) == <<expansion[k][1] * bz_a + s_a - MinI * bz_a,
                              expansion[k][2] * bz_b + s_b - MinJ * bz_b>>
        at(bidx, s_a, s_b, tail) ==
            [d \in 1 .. n |->
                IF d >= n - 1 THEN tail[d - (n - 2)]
                ELSE IF d = a + 1 THEN s_a
                ELSE IF d = b + 1 THEN s_b
                ELSE bidx[CHOOSE r \in 1 .. Len(RemainingAxes) : RemainingAxes[r] = d - 1]]
    IN  /\ result.val.shape = batch \o <<num_kx, num_ky, 2, flux.shape[n]>>
        /\ unflattened_wavevectors.val.shape = batch \o <<num_kx, num_ky, 2>>
        /\ \A k \in 1 .. nt, s_a \in 0 .. (bz_a - 1), s_b \in 0 .. (bz_b - 1),
              bidx \in Indices(batch) :
              /\ \A p \in 0 .. 1, s \in 0 .. (flux.shape[n] - 1) :
                    result.val.data[bidx \o bin(k, s_a, s_b) \o <<p, s>>]
                        = flux.data[at(bidx, s_a, s_b, <<p * nt + (k - 1), s>>)]
              /\ \A c \in 0 .. 1 :
                    unflattened_wavevectors.val.data[bidx \o bin(k, s_a, s_b) \o <<c>>]
                        = flat_transverse_wavevectors.data[at(bidx, s_a, s_b, <<k - 1, c>>)]

\* The flux and the wavevectors have their gaps at the same bins.
SameGaps ==
    /\ Take(result.val.shape, Ndim(result.val) - 2)
           = Take(unflattened_wavevectors.val.shape, Ndim(unflattened_wavevectors.val) - 1)
    /\ \A bin \in Indices(Take(result.val.shape, Ndim(result.val) - 2)) :
          \A p \in 0 .. 1, s \in 0 .. (Last(result.val.shape) - 1), c \in 0 .. 1 :
              IsNaN(result.val.data[bin \o <<p, s>>])
                  <=> IsNaN(unflattened_wavevectors.val.data[bin \o <<c>>])

\* C11 as stated: for every pair of distinct brillouin_grid_axes (a, b), in
\* increasing or decreasing order, positive or negative, unflatten_flux and
\* unflatten_transverse_wavevectors merge the first listed axis a with i into
\* num_kx and the second listed axis b with j into num_ky, and so place the
\* same (order, sample) pair at the same bin.
C11_ListedAxisRoles ==
    RolesDone => AxisRoles(FluxBga[1], FluxBga[2]) /\ SameGaps

\* C11 amended: whichever of the two axes is listed first, the one that
\* comes first in the array is merged with i into num_kx and the one that
\* comes second with j into num_ky, in the flux and in the wavevectors alike,
\* so both place the same (order, sample) pair at the same bin.
C11_PositionalAxisRoles ==
    RolesDone => AxisRoles(KxAxis, KyAxis) /\ SameGaps

\* Two orders that differ in i, over a grid with different lengths along its
\* two axes, the axes listed in decreasing order and counted from the end.
C11_Witness ==
    /\ RolesDone
    /\ num_terms(expansion) = 2 /\ MaxI > MinI
    /\ brillouin_grid_axes[1] < 0
    /\ FluxBga[1] > FluxBga[2]
    /\ FluxBzKx # FluxBzKy
    /\ unflattened_wavevectors.val.shape[Len(RemainingAxes) + 1] = 2 * FluxBzKx

====
